---------------------------- MODULE Spec2Model ----------------------------
(***************************************************************************)
(* A model of the go-sse client: one SSEFeed, its background read loop,    *)
(* the line parser processRaw, the subscription registry and the           *)
(* goroutines that call Subscribe, Subscription.Close and SSEFeed.Close.   *)
(*                                                                         *)
(* Byte strings are sequences of one-character strings, so that the        *)
(* parser's TrimRight / SplitN / Trim are computed as the code computes    *)
(* them.  A Go panic in any goroutine ends the process: `panicked` then    *)
(* holds the runtime's message and no action is enabled any more.          *)
(*                                                                         *)
(* Memory is sequentially consistent: the unsynchronised reads of          *)
(* s.closed see the latest write.                                          *)
(***************************************************************************)
EXTENDS Naturals, Sequences, FiniteSets, TLC

(***************************************************************************)
(* Bounds of the model.                                                    *)
(***************************************************************************)
\* number of subscriptions ever created (each gets a fresh id)
MaxSubs == 2
\* number of chunks of lines the transport delivers
MaxChunks == 2
\* number of goroutines besides the read loop that call into the feed
MaxClients == 2

\* a nil pointer / no holder; a pointer to v is <<v>>
Nil == << >>
NoArg == [id |-> 0, eventType |-> << >>]
Clients == 1..MaxClients
\* the read loop's goroutine
Reader == MaxClients + 1
Threads == {Reader} \cup Clients
SubIds == 1..MaxSubs

(***************************************************************************)
(* Bytes and strings.                                                      *)
(***************************************************************************)
NL == "\n"
Empty == << >>
Greeting == <<"g">>
Farewell == <<"f">>
\* the event-type filters callers subscribe with
EventTypes == {Empty, Greeting, Farewell}

\* strings.TrimRight(s, cutset) for a one-character cutset
RECURSIVE TrimRight(_, _)
TrimRight(s, c) ==
    IF s # << >> /\ s[Len(s)] = c THEN TrimRight(SubSeq(s, 1, Len(s) - 1), c) ELSE s

\* the leading half of strings.Trim(s, cutset)
RECURSIVE TrimLeft(_, _)
TrimLeft(s, c) ==
    IF s # << >> /\ s[1] = c THEN TrimLeft(Tail(s), c) ELSE s

\* strings.Trim(s, " ")
Trim(s, c) == TrimRight(TrimLeft(s, c), c)

\* index of the first sep in s, 0 when there is none
RECURSIVE IndexFrom(_, _, _)
IndexFrom(s, sep, i) ==
    IF i > Len(s) THEN 0
    ELSE IF s[i] = sep THEN i
    ELSE IndexFrom(s, sep, i + 1)

\* strings.SplitN(s, sep, 2): one element when sep does not occur
SplitN2(s, sep) ==
    LET i == IndexFrom(s, sep, 1)
    IN  IF i = 0 THEN << s >>
        ELSE << SubSeq(s, 1, i - 1), SubSeq(s, i + 1, Len(s)) >>

StrId == <<"i", "d">>
StrEvent == <<"e", "v", "e", "n", "t">>
StrData == <<"d", "a", "t", "a">>

(***************************************************************************)
(* The transport's input: whole lines as ReadBytes('\n') returns them.     *)
(***************************************************************************)
LId1 == StrId \o <<":", "1", NL>>
LId2 == StrId \o <<":", " ", "2", " ", NL>>
LEvG == StrEvent \o <<":", "g", NL>>
LEvF == StrEvent \o <<":", " ", "f", NL>>
LDaH == StrData \o <<":", "h", NL>>
LDaB == StrData \o <<":", "b", NL>>
LBlank == <<NL>>
LComment == <<":", "k", NL>>
LUnknown == <<"r", "e", "t", "r", "y", ":", "5", NL>>
LNoColon == StrData \o <<NL>>

RecGreeting == <<LId1, LEvG, LDaH, LBlank>>
RecFarewell == <<LId2, LEvF, LDaB, LBlank>>

RECURSIVE Flatten(_)
Flatten(ss) == IF ss = << >> THEN << >> ELSE Head(ss) \o Flatten(Tail(ss))

\* the streams made of at most MaxChunks of the given pieces
StreamsOf(chunks) ==
    { Flatten(cs) : cs \in UNION { [1..n -> chunks] : n \in 0..MaxChunks } }

\* streams of short well-formed records, for the interleavings
Streams == StreamsOf({ <<LEvG, LBlank>>, <<LEvF, LBlank>> })

\* streams of every kind of line, for the parser
ParseStreams ==
    StreamsOf({ RecGreeting, RecFarewell,
                <<LComment>>, <<LBlank>>,
                <<LUnknown, LBlank>>,
                <<LDaH, LDaB, LBlank>>,
                <<LNoColon>> })

(***************************************************************************)
(* State.                                                                  *)
(***************************************************************************)
VARIABLES
    subscriptions,    \* SSEFeed.subscriptions: the ids in the map
    eventType,        \* Subscription.eventType of each id
    feed,             \* Subscription.feed of each id: "none", "open", "closed"
    errFeed,          \* Subscription.errFeed of each id: the buffered values
    subscriptionsMtx, \* SSEFeed.subscriptionsMtx: Nil or <<the goroutine holding it>>
    stopChan,         \* SSEFeed.stopChan: "open" or "closed"
    closed,           \* SSEFeed.closed
    unfinishedEvent,  \* SSEFeed.unfinishedEvent: Nil or a StringEvent
    stream, pos,      \* the transport's lines and how many were read
    rpc,              \* where the read loop is
    evt,              \* processRaw's evt while it dispatches, else Nil
    rtodo,            \* subscriptions the dispatch loop has not visited yet
    target,           \* the subscription the dispatch loop is blocked sending to, if any
    cpc, carg,        \* each client goroutine's call in progress and its argument
    closePc, ctodo,   \* each goroutine's position in SSEFeed.Close and its range loop
    nextId,           \* the next fresh subscription id
    panicked,         \* "none" or the message of the panic that ended the process
    received,         \* history: the events each subscriber received on Feed()
    errReceived,      \* history: the errors each subscriber received on ErrFeed()
    completed,        \* history: the events of the records completed on the stream
    due               \* history: the events each subscriber was to get when they completed

vars ==
    << subscriptions, eventType, feed, errFeed, subscriptionsMtx, stopChan, closed,
       unfinishedEvent, stream, pos, rpc, evt, rtodo, target, cpc, carg, closePc,
       ctodo, nextId, panicked, received, errReceived, completed, due >>

(***************************************************************************)
(* The parser.                                                             *)
(***************************************************************************)
\* an errFeed made without a buffer
ErrFeedUnbuffered == 1 - 1

\* capacity of Subscription.errFeed
ErrFeedCap == 1

StringEvent(i, e, d) == [Id |-> i, Event |-> e, Data |-> d]

\* &StringEvent{}
NewEvent == StringEvent(Empty, Empty, Empty)

\* processRaw's test for the line that ends a record
IsBlank(b) == Len(b) = 1 /\ b[1] = NL

\* the copy with the event type taken from the data field
SnapshotMixed(u) == StringEvent(u.Id, u.Data, u.Event)

\* the copy processRaw makes of the pending record
Snapshot(u) == StringEvent(u.Id, u.Event, u.Data)

\* a dispatch loop without a filter test
MatchesAny(filter, e) == e = e

\* the filter test of the dispatch loop
Matches(filter, e) == filter = Empty \/ filter = e.Event

\* whether split[1] exists: SplitN gives one element when there is no colon
HasValue(split) == Len(split) >= 2

\* the value as it stands after the colon, its spaces kept
FieldValueRaw(split) == split[2]

\* strings.Trim(split[1], " ")
FieldValue(split) == Trim(split[2], " ")

\* the field code without the comment test: every line starts a record
ProcessFieldNoComment(u, b) ==
    LET payload == TrimRight(b, NL)
        split == SplitN2(payload, ":")
        name == split[1]
        u1 == IF u = Nil THEN NewEvent ELSE u[1]
    IN  IF name \notin {StrId, StrEvent, StrData} THEN [panic |-> FALSE, u |-> <<u1>>]
        ELSE IF ~HasValue(split) THEN [panic |-> TRUE, u |-> <<u1>>]
        ELSE IF name = StrId
             THEN [panic |-> FALSE, u |-> <<[u1 EXCEPT !.Id = FieldValue(split)]>>]
        ELSE IF name = StrEvent
             THEN [panic |-> FALSE, u |-> <<[u1 EXCEPT !.Event = FieldValue(split)]>>]
        ELSE [panic |-> FALSE, u |-> <<[u1 EXCEPT !.Data = FieldValue(split)]>>]

\* processRaw from the TrimRight on: the pending record after line b, and
\* whether indexing split[1] panicked
ProcessField(u, b) ==
    LET payload == TrimRight(b, NL)
        split == SplitN2(payload, ":")
        name == split[1]
        u1 == IF u = Nil THEN NewEvent ELSE u[1]
        v == FieldValue(split)
    IN  IF name = Empty THEN [panic |-> FALSE, u |-> u]
        ELSE IF name \notin {StrId, StrEvent, StrData} THEN [panic |-> FALSE, u |-> <<u1>>]
        ELSE IF ~HasValue(split) THEN [panic |-> TRUE, u |-> <<u1>>]
        ELSE IF name = StrId THEN [panic |-> FALSE, u |-> <<[u1 EXCEPT !.Id = v]>>]
        ELSE IF name = StrEvent THEN [panic |-> FALSE, u |-> <<[u1 EXCEPT !.Event = v]>>]
        ELSE [panic |-> FALSE, u |-> <<[u1 EXCEPT !.Data = v]>>]

(***************************************************************************)
(* Initial state: a connected feed with its read loop started.             *)
(***************************************************************************)
InitWith(streams) ==
    /\ subscriptions = {}
    /\ eventType = [id \in SubIds |-> Empty]
    /\ feed = [id \in SubIds |-> "none"]
    /\ errFeed = [id \in SubIds |-> << >>]
    /\ subscriptionsMtx = Nil
    /\ stopChan = "open"
    /\ closed = FALSE
    /\ unfinishedEvent = Nil
    /\ stream \in streams
    /\ pos = 0
    /\ rpc = "select"
    /\ evt = Nil
    /\ rtodo = {}
    /\ target = {}
    /\ cpc = [c \in Clients |-> "idle"]
    /\ carg = [c \in Clients |-> NoArg]
    /\ closePc = [p \in Threads |-> "none"]
    /\ ctodo = [p \in Threads |-> {}]
    /\ nextId = 1
    /\ panicked = "none"
    /\ received = [id \in SubIds |-> << >>]
    /\ errReceived = [id \in SubIds |-> 0]
    /\ completed = << >>
    /\ due = [id \in SubIds |-> << >>]

Init == InitWith(Streams)

\* the same feed reading any kind of line
InitParse == InitWith(ParseStreams)

Running == panicked = "none"

\* a goroutine panics: the process ends where it is
Panic(msg) ==
    /\ panicked' = msg
    /\ UNCHANGED << subscriptions, eventType, feed, errFeed, subscriptionsMtx, stopChan,
                    closed, unfinishedEvent, stream, pos, rpc, evt, rtodo, target, cpc,
                    carg, closePc, ctodo, nextId, received, errReceived, completed, due >>

(***************************************************************************)
(* The read loop.                                                          *)
(***************************************************************************)
\* select on stopChan: leave the loop (and close the body) or start a read
ReaderSelect ==
    /\ Running
    /\ rpc = "select"
    /\ rpc' = IF stopChan = "closed" THEN "done" ELSE "read"
    /\ UNCHANGED << subscriptions, eventType, feed, errFeed, subscriptionsMtx, stopChan,
                    closed, unfinishedEvent, stream, pos, evt, rtodo, target, cpc, carg,
                    closePc, ctodo, nextId, panicked, received, errReceived,
                    completed, due >>

\* a registered subscriber with an open channel whose filter is "" or the
\* record's event type is to get the record
Owed(id, e) ==
    /\ id \in subscriptions
    /\ feed[id] = "open"
    /\ eventType[id] \in {Empty, e.Event}

\* processRaw on a line that does not end a record
ProcessLine(b) ==
    LET r == ProcessField(unfinishedEvent, b)
    IN  /\ unfinishedEvent' = r.u
        /\ panicked' = IF r.panic THEN "index out of range" ELSE panicked
        /\ rpc' = IF r.panic THEN rpc ELSE "select"
        /\ UNCHANGED << subscriptionsMtx, evt, rtodo, completed, due >>

\* the blank line handled without clearing the pending record
ProcessBlankKeep ==
    /\ subscriptionsMtx = Nil
    /\ IF unfinishedEvent = Nil
       THEN /\ rpc' = "select"
            /\ UNCHANGED << unfinishedEvent, subscriptionsMtx, evt, rtodo, completed, due >>
       ELSE /\ evt' = <<Snapshot(unfinishedEvent[1])>>
            /\ completed' = Append(completed, unfinishedEvent[1])
            /\ due' = [id \in SubIds |->
                          IF Owed(id, unfinishedEvent[1])
                          THEN Append(due[id], unfinishedEvent[1]) ELSE due[id]]
            /\ rtodo' = subscriptions
            /\ subscriptionsMtx' = <<Reader>>
            /\ rpc' = "dispatch"
            /\ UNCHANGED unfinishedEvent
    /\ UNCHANGED panicked

\* processRaw on the blank line: under the mutex, nothing when no record is
\* pending, else the record is copied, cleared and the dispatch loop starts
ProcessBlank ==
    /\ subscriptionsMtx = Nil
    /\ IF unfinishedEvent = Nil
       THEN /\ rpc' = "select"
            /\ UNCHANGED << unfinishedEvent, subscriptionsMtx, evt, rtodo, completed, due >>
       ELSE /\ evt' = <<Snapshot(unfinishedEvent[1])>>
            /\ unfinishedEvent' = Nil
            /\ completed' = Append(completed, unfinishedEvent[1])
            /\ due' = [id \in SubIds |->
                          IF Owed(id, unfinishedEvent[1])
                          THEN Append(due[id], unfinishedEvent[1]) ELSE due[id]]
            /\ rtodo' = subscriptions
            /\ subscriptionsMtx' = <<Reader>>
            /\ rpc' = "dispatch"
    /\ UNCHANGED panicked

\* ReadBytes returns the next line and the loop hands it to processRaw
ReaderReadLine ==
    /\ Running
    /\ rpc = "read"
    /\ pos < Len(stream)
    /\ pos' = pos + 1
    /\ LET b == stream[pos + 1]
       IN  IF IsBlank(b) THEN ProcessBlank ELSE ProcessLine(b)
    /\ UNCHANGED << subscriptions, eventType, feed, errFeed, stopChan, closed, stream,
                    target, cpc, carg, closePc, ctodo, nextId, received,
                    errReceived >>

\* ReadBytes returns no bytes and io.EOF: the loop polls again
ReaderReadEOF ==
    /\ Running
    /\ rpc = "read"
    /\ pos = Len(stream)
    /\ rpc' = "select"
    /\ UNCHANGED << subscriptions, eventType, feed, errFeed, subscriptionsMtx, stopChan,
                    closed, unfinishedEvent, stream, pos, evt, rtodo, target, cpc, carg,
                    closePc, ctodo, nextId, panicked, received, errReceived,
                    completed, due >>

\* ReadBytes fails with an error other than io.EOF: the loop calls feed.error
ReaderReadErr ==
    /\ Running
    /\ rpc = "read"
    /\ rpc' = "error"
    /\ UNCHANGED << subscriptions, eventType, feed, errFeed, subscriptionsMtx, stopChan,
                    closed, unfinishedEvent, stream, pos, evt, rtodo, target, cpc, carg,
                    closePc, ctodo, nextId, panicked, received, errReceived,
                    completed, due >>

\* the subscriptions the dispatch loop still has to send evt to
Pending == { id \in rtodo : Matches(eventType[id], evt[1]) }

\* a dispatch loop whose send does not wait: with no receiver at hand the
\* event is dropped and the loop goes on
ReaderDispatchDrop ==
    /\ Running
    /\ rpc = "dispatch"
    /\ IF Pending = {}
       THEN LET r == ProcessField(unfinishedEvent, LBlank)
            IN  /\ unfinishedEvent' = r.u
                /\ subscriptionsMtx' = Nil
                /\ rpc' = "select"
                /\ evt' = Nil
                /\ rtodo' = {}
                /\ UNCHANGED << target, panicked >>
       ELSE \E id \in Pending :
                IF feed[id] = "closed"
                THEN /\ panicked' = "send on closed channel"
                     /\ UNCHANGED << unfinishedEvent, subscriptionsMtx, rpc, evt, rtodo,
                                     target >>
                ELSE \/ /\ rpc' = "send"
                        /\ target' = {id}
                        /\ UNCHANGED << unfinishedEvent, subscriptionsMtx, evt, rtodo,
                                        panicked >>
                     \/ /\ rtodo' = rtodo \ {id}
                        /\ UNCHANGED << unfinishedEvent, subscriptionsMtx, rpc, evt,
                                        target, panicked >>
    /\ UNCHANGED << subscriptions, eventType, feed, errFeed, stopChan, closed, stream, pos,
                    cpc, carg, closePc, ctodo, nextId, received, errReceived,
                    completed, due >>

\* the dispatch loop picks its next subscription (map order is arbitrary) and
\* starts the send on its unbuffered channel; with none left processRaw falls
\* through to the field code with the blank line, returns and unlocks
ReaderDispatch ==
    /\ Running
    /\ rpc = "dispatch"
    /\ IF Pending = {}
       THEN LET r == ProcessField(unfinishedEvent, LBlank)
            IN  /\ unfinishedEvent' = r.u
                /\ subscriptionsMtx' = Nil
                /\ rpc' = "select"
                /\ evt' = Nil
                /\ rtodo' = {}
                /\ UNCHANGED << target, panicked >>
       ELSE \E id \in Pending :
                IF feed[id] = "closed"
                THEN /\ panicked' = "send on closed channel"
                     /\ UNCHANGED << unfinishedEvent, subscriptionsMtx, rpc, evt, rtodo,
                                     target >>
                ELSE /\ rpc' = "send"
                     /\ target' = {id}
                     /\ UNCHANGED << unfinishedEvent, subscriptionsMtx, evt, rtodo,
                                     panicked >>
    /\ UNCHANGED << subscriptions, eventType, feed, errFeed, stopChan, closed, stream, pos,
                    cpc, carg, closePc, ctodo, nextId, received, errReceived,
                    completed, due >>

\* a subscriber receives from Feed() the event the dispatch loop is sending
Recv(id) ==
    /\ Running
    /\ rpc = "send"
    /\ target = {id}
    /\ received' = [received EXCEPT ![id] = Append(@, evt[1])]
    /\ rtodo' = rtodo \ {id}
    /\ target' = {}
    /\ rpc' = "dispatch"
    /\ UNCHANGED << subscriptions, eventType, feed, errFeed, subscriptionsMtx, stopChan,
                    closed, unfinishedEvent, stream, pos, evt, cpc, carg, closePc, ctodo,
                    nextId, panicked, errReceived, completed, due >>

\* a subscriber receives from ErrFeed()
ErrRecv(id) ==
    /\ Running
    /\ errFeed[id] # << >>
    /\ errFeed' = [errFeed EXCEPT ![id] = Tail(@)]
    /\ errReceived' = [errReceived EXCEPT ![id] = @ + 1]
    /\ UNCHANGED << subscriptions, eventType, feed, subscriptionsMtx, stopChan, closed,
                    unfinishedEvent, stream, pos, rpc, evt, rtodo, target, cpc, carg,
                    closePc, ctodo, nextId, panicked, received, completed, due >>

\* feed.error: under the mutex, one value into every registered subscription's
\* errFeed (blocking, mutex held, when a buffer is full), then s.Close() up to
\* its test of s.closed
ReaderError ==
    /\ Running
    /\ rpc = "error"
    /\ subscriptionsMtx = Nil
    /\ IF \E id \in subscriptions : Len(errFeed[id]) >= ErrFeedCap
       THEN /\ subscriptionsMtx' = <<Reader>>
            /\ rpc' = "error_blocked"
            /\ UNCHANGED << errFeed, closePc >>
       ELSE /\ errFeed' = [id \in SubIds |-> IF id \in subscriptions
                                               THEN Append(errFeed[id], "err")
                                               ELSE errFeed[id]]
            /\ IF closed
               THEN /\ rpc' = "done"
                    /\ UNCHANGED << subscriptionsMtx, closePc >>
               ELSE /\ rpc' = "error_close"
                    /\ subscriptionsMtx' = <<Reader>>
                    /\ closePc' = [closePc EXCEPT ![Reader] = "stop"]
    /\ UNCHANGED << subscriptions, eventType, feed, stopChan, closed, unfinishedEvent,
                    stream, pos, evt, rtodo, target, cpc, carg, ctodo, nextId,
                    panicked, received, errReceived, completed, due >>

(***************************************************************************)
(* The registry.                                                           *)
(***************************************************************************)
\* closeSubscription(id), which needs the mutex: the channel of a registered
\* id is closed (a panic when it is closed already); the map is left as it is
CloseSubscription(id) ==
    /\ subscriptionsMtx = Nil
    /\ IF id \in subscriptions
       THEN IF feed[id] = "closed"
            THEN panicked' = "close of closed channel: sub.feed" /\ UNCHANGED feed
            ELSE feed' = [feed EXCEPT ![id] = "closed"] /\ UNCHANGED panicked
       ELSE UNCHANGED << feed, panicked >>
    /\ UNCHANGED << subscriptions, subscriptionsMtx >>

\* Subscribe without its s.closed test
SubscribeCallUnchecked(c, t) ==
    /\ Running
    /\ cpc[c] = "idle"
    /\ nextId <= MaxSubs
    /\ cpc' = [cpc EXCEPT ![c] = "subscribe"]
    /\ carg' = [carg EXCEPT ![c] = [id |-> nextId, eventType |-> t]]
    /\ nextId' = nextId + 1
    /\ feed' = [feed EXCEPT ![nextId] = "open"]
    /\ UNCHANGED << subscriptions, eventType, errFeed, subscriptionsMtx, stopChan, closed,
                    unfinishedEvent, stream, pos, rpc, evt, rtodo, target, closePc, ctodo,
                    panicked, received, errReceived, completed, due >>

\* Subscribe up to the Lock: the s.closed test (on a closed feed the call is
\* about to return nil and an error), the fresh id, the channels
SubscribeCall(c, t) ==
    /\ Running
    /\ cpc[c] = "idle"
    /\ IF closed
       THEN /\ cpc' = [cpc EXCEPT ![c] = "rejected"]
            /\ UNCHANGED << carg, nextId, feed >>
       ELSE /\ nextId <= MaxSubs
            /\ cpc' = [cpc EXCEPT ![c] = "subscribe"]
            /\ carg' = [carg EXCEPT ![c] = [id |-> nextId, eventType |-> t]]
            /\ nextId' = nextId + 1
            /\ feed' = [feed EXCEPT ![nextId] = "open"]
    /\ UNCHANGED << subscriptions, eventType, errFeed, subscriptionsMtx, stopChan, closed,
                    unfinishedEvent, stream, pos, rpc, evt, rtodo, target, closePc, ctodo,
                    panicked, received, errReceived, completed, due >>

\* Subscribe returns nil and the error "sse feed closed"
SubscribeRejected(c) ==
    /\ Running
    /\ cpc[c] = "rejected"
    /\ cpc' = [cpc EXCEPT ![c] = "idle"]
    /\ UNCHANGED << subscriptions, eventType, feed, errFeed, subscriptionsMtx, stopChan,
                    closed, unfinishedEvent, stream, pos, rpc, evt, rtodo, target, carg,
                    closePc, ctodo, nextId, panicked, received, errReceived, completed, due >>

\* the goroutines whose Close is ranging over the map without the mutex
Ranging == { p \in Threads : closePc[p] = "iter" }

\* Subscribe's insertion under the mutex.  A Close ranging over the map at
\* the same time may or may not produce the new entry.
SubscribeInsert(c) ==
    /\ Running
    /\ cpc[c] = "subscribe"
    /\ subscriptionsMtx = Nil
    /\ subscriptions' = subscriptions \cup {carg[c].id}
    /\ eventType' = [eventType EXCEPT ![carg[c].id] = carg[c].eventType]
    /\ \E S \in SUBSET Ranging :
           ctodo' = [p \in Threads |-> IF p \in S THEN ctodo[p] \cup {carg[c].id}
                                        ELSE ctodo[p]]
    /\ cpc' = [cpc EXCEPT ![c] = "idle"]
    /\ carg' = [carg EXCEPT ![c] = NoArg]
    /\ UNCHANGED << feed, errFeed, subscriptionsMtx, stopChan, closed, unfinishedEvent,
                    stream, pos, rpc, evt, rtodo, target, closePc, nextId, panicked,
                    received, errReceived, completed, due >>

\* the map write of Subscribe overlaps a step of Close's unlocked range loop:
\* the runtime ends the process
SubscribeInsertRace(c) ==
    /\ Running
    /\ cpc[c] = "subscribe"
    /\ subscriptionsMtx = Nil
    /\ Ranging # {}
    /\ Panic("concurrent map iteration and map write")

\* Subscription.Close() on a handle Subscribe returned
UnsubscribeCall(c, id) ==
    /\ Running
    /\ cpc[c] = "idle"
    /\ id \in subscriptions
    /\ cpc' = [cpc EXCEPT ![c] = "unsubscribe"]
    /\ carg' = [carg EXCEPT ![c] = [id |-> id, eventType |-> Empty]]
    /\ UNCHANGED << subscriptions, eventType, feed, errFeed, subscriptionsMtx, stopChan,
                    closed, unfinishedEvent, stream, pos, rpc, evt, rtodo, target, closePc,
                    ctodo, nextId, panicked, received, errReceived, completed, due >>

\* ... which runs closeSubscription once it gets the mutex
Unsubscribe(c) ==
    /\ Running
    /\ cpc[c] = "unsubscribe"
    /\ CloseSubscription(carg[c].id)
    /\ cpc' = [cpc EXCEPT ![c] = "idle"]
    /\ carg' = [carg EXCEPT ![c] = NoArg]
    /\ UNCHANGED << eventType, errFeed, stopChan, closed, unfinishedEvent, stream, pos,
                    rpc, evt, rtodo, target, closePc, ctodo, nextId, received,
                    errReceived, completed, due >>

(***************************************************************************)
(* SSEFeed.Close, called by a client or by the read loop from feed.error.  *)
(***************************************************************************)
\* a client calls Close: the test of s.closed
CloseCall(c) ==
    /\ Running
    /\ cpc[c] = "idle"
    /\ IF closed
       THEN UNCHANGED << cpc, closePc >>
       ELSE /\ cpc' = [cpc EXCEPT ![c] = "close"]
            /\ closePc' = [closePc EXCEPT ![c] = "stop"]
    /\ UNCHANGED << subscriptions, eventType, feed, errFeed, subscriptionsMtx, stopChan,
                    closed, unfinishedEvent, stream, pos, rpc, evt, rtodo, target, carg,
                    ctodo, nextId, panicked, received, errReceived, completed, due >>

\* close(s.stopChan), then the range loop starts
CloseStop(p) ==
    /\ Running
    /\ closePc[p] = "stop"
    /\ IF stopChan = "closed"
       THEN /\ panicked' = "close of closed channel: s.stopChan"
            /\ UNCHANGED << stopChan, closePc, ctodo >>
       ELSE /\ stopChan' = "closed"
            /\ closePc' = [closePc EXCEPT ![p] = "iter"]
            /\ ctodo' = [ctodo EXCEPT ![p] = subscriptions]
            /\ UNCHANGED panicked
    /\ UNCHANGED << subscriptions, eventType, feed, errFeed, subscriptionsMtx, closed,
                    unfinishedEvent, stream, pos, rpc, evt, rtodo, target, cpc, carg,
                    nextId, received, errReceived, completed, due >>

\* one turn of the range loop: closeSubscription(subId)
CloseIter(p) ==
    /\ Running
    /\ closePc[p] = "iter"
    /\ \E id \in ctodo[p] :
           /\ CloseSubscription(id)
           /\ ctodo' = [ctodo EXCEPT ![p] = @ \ {id}]
    /\ UNCHANGED << eventType, errFeed, stopChan, closed, unfinishedEvent, stream, pos,
                    rpc, evt, rtodo, target, cpc, carg, closePc, nextId, received,
                    errReceived, completed, due >>

\* the loop is over: s.closed = true and Close returns (to the client, or to
\* feed.error, which unlocks and lets the read loop end)
CloseSet(p) ==
    /\ Running
    /\ closePc[p] = "iter"
    /\ ctodo[p] = {}
    /\ closed' = TRUE
    /\ closePc' = [closePc EXCEPT ![p] = "none"]
    /\ IF p = Reader
       THEN /\ subscriptionsMtx' = Nil
            /\ rpc' = "done"
            /\ UNCHANGED cpc
       ELSE /\ cpc' = [cpc EXCEPT ![p] = "idle"]
            /\ UNCHANGED << subscriptionsMtx, rpc >>
    /\ UNCHANGED << subscriptions, eventType, feed, errFeed, stopChan, unfinishedEvent,
                    stream, pos, evt, rtodo, target, carg, ctodo, nextId, panicked,
                    received, errReceived, completed, due >>

(***************************************************************************)
(* The specification.                                                      *)
(***************************************************************************)
\* the steps of the read loop's goroutine
ReaderStep ==
    \/ ReaderSelect
    \/ ReaderReadLine
    \/ ReaderDispatch
    \/ ReaderError
    \/ CloseStop(Reader)
    \/ CloseIter(Reader)
    \/ CloseSet(Reader)

Next ==
    \/ ReaderSelect
    \/ ReaderReadLine
    \/ ReaderReadEOF
    \/ ReaderReadErr
    \/ ReaderDispatch
    \/ ReaderError
    \/ \E id \in SubIds : Recv(id)
    \/ \E id \in SubIds : ErrRecv(id)
    \/ \E c \in Clients, t \in EventTypes : SubscribeCall(c, t)
    \/ \E c \in Clients : SubscribeRejected(c)
    \/ \E c \in Clients : SubscribeInsert(c)
    \/ \E c \in Clients : SubscribeInsertRace(c)
    \/ \E c \in Clients, id \in SubIds : UnsubscribeCall(c, id)
    \/ \E c \in Clients : Unsubscribe(c)
    \/ \E c \in Clients : CloseCall(c)
    \/ \E p \in Threads : CloseStop(p)
    \/ \E p \in Threads : CloseIter(p)
    \/ \E p \in Threads : CloseSet(p)

Spec == Init /\ [][Next]_vars

\* the read loop, the subscribers and Subscribe / Subscription.Close on
\* streams of every kind of line
NextParse ==
    \/ ReaderSelect
    \/ ReaderReadLine
    \/ ReaderDispatch
    \/ \E id \in SubIds : Recv(id)
    \/ \E c \in Clients, t \in EventTypes : SubscribeCall(c, t)
    \/ \E c \in Clients : SubscribeInsert(c)
    \/ \E c \in Clients, id \in SubIds : UnsubscribeCall(c, id)
    \/ \E c \in Clients : Unsubscribe(c)

SpecParse == InitParse /\ [][NextParse]_vars

(***************************************************************************)
(* Properties.                                                             *)
(***************************************************************************)
\* processRaw is not in its dispatch loop, or the process has ended in it
DispatchOver == rpc \notin {"dispatch", "send"} \/ ~Running

\* the subscriptions whose channel a Subscription.Close() or Close() closed
Unsubscribed == { id \in SubIds : feed[id] = "closed" }

\* the streams made of records id:I, event:E, data:D, blank line
FullRecordStreams == StreamsOf({ RecGreeting, RecFarewell })

\* C1: on a stream of records id:I, event:E, data:D, once processRaw is done
\* with a record, every subscription that was registered with an open
\* channel and with filter "" or E has received exactly one Event {I, E, D}
\* for it, and no subscription has received anything else.
C1_DeliveredToEachMatching ==
    (stream \in FullRecordStreams /\ DispatchOver)
        => \A id \in SubIds : received[id] = due[id]

RECURSIVE IsSubseq(_, _)
IsSubseq(a, b) ==
    IF a = << >> THEN TRUE
    ELSE IF b = << >> THEN FALSE
    ELSE IF Head(a) = Head(b) THEN IsSubseq(Tail(a), Tail(b))
    ELSE IsSubseq(a, Tail(b))

\* C2: what a subscriber has received is, in the same order, a subsequence
\* of the events of the records completed on the stream.
C2_ReceivedInStreamOrder ==
    \A id \in SubIds : IsSubseq(received[id], completed)

\* C2 witness: a subscriber has received two different events.
C2_Witness ==
    \E id \in SubIds : Len(received[id]) = 2 /\ received[id][1] # received[id][2]

\* the read loop is neither in feed.error nor past it
NoReadError == rpc \notin {"error", "error_blocked", "error_close"}

\* C3: after a Subscription.Close(), with the feed not closed and no read
\* error, the subscription's channel is closed, the dispatch loop does not
\* send to it and the read loop keeps running.
C3_UnsubscribeLeavesFeedRunning ==
    (Unsubscribed # {} /\ stopChan = "open" /\ NoReadError)
        => /\ panicked # "send on closed channel"
           /\ target \cap Unsubscribed = {}

\* C4: once Close() has closed the stop channel, as long as the delivery
\* channel of a registered subscription is still open the process has not
\* died in a send of the dispatch loop or in a close of closeSubscription,
\* so that the channel can still be closed.
C4_CloseClosesEveryFeed ==
    (stopChan = "closed" /\ \E id \in subscriptions : feed[id] = "open")
        => panicked \notin {"send on closed channel", "close of closed channel: sub.feed"}

\* C5: after a read error every registered subscription has got exactly one
\* error value, and until the feed is closed (closed set, stop channel and
\* every delivery channel closed) the read loop can take its next step.
C5_ErrorThenClosed ==
    (rpc = "error_close" /\ Running)
        => /\ \A id \in subscriptions : Len(errFeed[id]) + errReceived[id] = 1
           /\ ENABLED ReaderStep

\* C6: a subscription whose channel closeSubscription has closed is no
\* longer in the registry, and no closeSubscription closes a channel twice.
C6_RemoveIsIdempotent ==
    /\ \A id \in Unsubscribed : id \notin subscriptions
    /\ panicked # "close of closed channel: sub.feed"

\* C7: the stop channel is never closed twice, whatever Close() calls and
\* read errors interleave.
C7_StopClosedOnce == panicked # "close of closed channel: s.stopChan"

\* C8: a Subscribe call made once the feed is closed goes to its error
\* return, creates no subscription and leaves the registry, the channels and
\* the ids as they are; and only such calls are rejected.
C8_SubscribeRejectedWhenClosed ==
    [][\A c \in Clients :
          /\ (closed /\ cpc[c] = "idle") => cpc'[c] # "subscribe"
          /\ (cpc[c] = "idle" /\ cpc'[c] = "rejected")
                => (closed /\ subscriptions' = subscriptions /\ feed' = feed
                           /\ nextId' = nextId)
          /\ (cpc[c] = "rejected" /\ cpc'[c] # "rejected")
                => (cpc'[c] = "idle" /\ subscriptions' = subscriptions /\ feed' = feed)]_vars

\* C8 witness: a Subscribe call on the closed feed is returning its error.
C8_Witness == closed /\ \E c \in Clients : cpc[c] = "rejected"

\* C9: no line makes processRaw fail.
C9_ParsingNeverFails == panicked # "index out of range"

\* a line that starts with ':'
IsCommentLine(b) == b[1] = ":"

\* the lines read so far are all comment lines or blank lines
OnlyCommentsAndBlanks ==
    \A i \in 1..pos : IsCommentLine(stream[i]) \/ stream[i] = <<NL>>

\* C10: while only comment lines and blank lines were read, no record is
\* pending, none was completed and nothing was dispatched or received.
C10_CommentsAndBlanksEmitNothing ==
    OnlyCommentsAndBlanks
        => /\ unfinishedEvent = Nil
           /\ completed = << >>
           /\ rpc \notin {"dispatch", "send"}
           /\ \A id \in SubIds : received[id] = << >>

\* C10 witness: a comment line and then a blank line were read and handled
\* while a subscription for every event type was registered.
C10_Witness ==
    /\ pos = 2
    /\ IsCommentLine(stream[1])
    /\ stream[2] = <<NL>>
    /\ rpc = "select"
    /\ \E id \in subscriptions : eventType[id] = Empty /\ feed[id] = "open"

\* the last blank line among the first m lines of the stream, 0 when none
PrevBlank(m) ==
    LET B == { i \in 1..m : stream[i] = <<NL>> }
    IN  IF B = {} THEN 0 ELSE CHOOSE i \in B : \A j \in B : j <= i

\* where the first ':' of a line stands, 0 when it has none
FirstColon(b) ==
    LET K == { i \in 1..Len(b) : b[i] = ":" }
    IN  IF K = {} THEN 0 ELSE CHOOSE i \in K : \A j \in K : i <= j

\* the field name a line carries: what precedes its first ':'
NameOf(b) == SubSeq(b, 1, FirstColon(b) - 1)

\* the value a line carries: what stands between its first ':' and the end
\* of the line, without the spaces around it
ValueOf(b) == Trim(SubSeq(b, FirstColon(b) + 1, Len(b) - 1), " ")

\* the lines lo..hi that are not comments
FieldLines(lo, hi) == { i \in lo..hi : ~IsCommentLine(stream[i]) }

\* the value of field f after the lines lo..hi: that of the last line naming
\* f, the empty string when no line names it
LastValue(f, lo, hi) ==
    LET N == { i \in lo..hi : FirstColon(stream[i]) > 1 /\ NameOf(stream[i]) = f }
    IN  IF N = {} THEN Empty
        ELSE ValueOf(stream[CHOOSE i \in N : \A j \in N : j <= i])

\* the Event the lines lo..hi of one record amount to
RecordOf(lo, hi) ==
    StringEvent(LastValue(StrId, lo, hi), LastValue(StrEvent, lo, hi),
                LastValue(StrData, lo, hi))

\* C11: within one record each of id, event and data holds the trimmed value
\* of the last line that named it and a field no line named is empty, in the
\* pending record after every line and in the Event the blank line emits.
C11_LastLineWins ==
    /\ (pos >= 1 /\ stream[pos] # <<NL>> /\ FieldLines(PrevBlank(pos) + 1, pos) # {})
          => unfinishedEvent = <<RecordOf(PrevBlank(pos) + 1, pos)>>
    /\ (pos >= 1 /\ stream[pos] = <<NL>>
              /\ FieldLines(PrevBlank(pos - 1) + 1, pos - 1) # {})
          => /\ completed # << >>
             /\ completed[Len(completed)] = RecordOf(PrevBlank(pos - 1) + 1, pos - 1)
             /\ rpc \in {"dispatch", "send"}
                    => evt = <<RecordOf(PrevBlank(pos - 1) + 1, pos - 1)>>

\* C11 witness: a record with two data lines was completed with the value of
\* the second one, and a subscriber has received it.
C11_Witness ==
    /\ pos = 3
    /\ stream[1] = LDaH
    /\ stream[2] = LDaB
    /\ completed = <<StringEvent(Empty, Empty, <<"b">>)>>
    /\ \E id \in SubIds : received[id] = completed

\* C12: over its lifetime the error channel of a subscription gets at most
\* one value (buffered or already received), and the send feed.error makes
\* never finds the one-slot buffer full, so it never blocks.
C12_OneErrorNeverBlocks ==
    /\ \A id \in SubIds : Len(errFeed[id]) + errReceived[id] <= 1
    /\ rpc # "error_blocked"

\* C12 witness: after a read error every subscription has got its one error
\* value, one still in the buffer and one already received.
C12_Witness ==
    /\ rpc \in {"error_close", "done"}
    /\ subscriptions = SubIds
    /\ \E id \in SubIds : Len(errFeed[id]) = 1
    /\ \E id \in SubIds : errReceived[id] = 1

\* C13: every access to the subscriptions map and to unfinishedEvent is made
\* with the registry mutex held: a goroutine that starts Close's range over
\* the map holds the mutex, and a step that changes
\* unfinishedEvent is taken by the read loop holding it.
C13_RegistryAccessUnderMutex ==
    [][/\ \A p \in Threads :
              (closePc[p] = "stop" /\ closePc'[p] = "iter") => subscriptionsMtx = <<p>>
       /\ unfinishedEvent' # unfinishedEvent
              => (subscriptionsMtx = <<Reader>> \/ subscriptionsMtx' = <<Reader>>)]_vars

\* the names of the fields the lines lo..hi set
Named(lo, hi) ==
    { f \in {StrId, StrEvent, StrData} :
          \E i \in lo..hi : FirstColon(stream[i]) > 1 /\ NameOf(stream[i]) = f }

\* C14: once a blank line has completed a record no record is pending until
\* the next line that is not a comment, and the Event of a record has the
\* empty string in every field its own lines did not set, whatever the
\* records before it held.
C14_NoCarryOver ==
    /\ (pos >= 1 /\ FieldLines(PrevBlank(pos) + 1, pos) = {}) => unfinishedEvent = Nil
    /\ (pos >= 1 /\ stream[pos] = <<NL>>
              /\ FieldLines(PrevBlank(pos - 1) + 1, pos - 1) # {})
          => LET e == completed[Len(completed)]
                 N == Named(PrevBlank(pos - 1) + 1, pos - 1)
             IN  /\ StrId \notin N => e.Id = Empty
                 /\ StrEvent \notin N => e.Event = Empty
                 /\ StrData \notin N => e.Data = Empty

\* C14 witness: a record with id, event and data was completed, then a record
\* that sets data only, whose Event has an empty id and event type.
C14_Witness ==
    /\ Len(completed) = 2
    /\ completed[1].Id # Empty /\ completed[1].Event # Empty
    /\ completed[2] = StringEvent(Empty, Empty, <<"b">>)
    /\ unfinishedEvent = Nil
    /\ \E id \in SubIds : received[id] = completed

\* a line that is not blank, not a comment and names none of id, event, data
IsUnknownFieldLine(b) ==
    /\ b # <<NL>>
    /\ ~IsCommentLine(b)
    /\ NameOf(TrimRight(b, NL) \o <<":">>) \notin {StrId, StrEvent, StrData}

\* the blank lines among the first m lines that completed a record
CompletingBlanks(m) ==
    { i \in 1..m : stream[i] = <<NL>> /\ FieldLines(PrevBlank(i - 1) + 1, i - 1) # {} }

\* C15: a line with an unknown field name starts a pending record with every
\* field empty; the blank line after it emits exactly one Event, with every
\* field empty, and an Event with an empty event type is received only by
\* subscriptions whose filter is empty.
C15_UnknownFieldEmitsEmptyEvent ==
    /\ (pos >= 1 /\ IsUnknownFieldLine(stream[pos]) /\ FieldLines(PrevBlank(pos) + 1, pos) = {pos})
          => unfinishedEvent = <<NewEvent>>
    /\ Len(completed) = Cardinality(CompletingBlanks(pos))
    /\ (pos >= 2 /\ stream[pos] = <<NL>> /\ IsUnknownFieldLine(stream[pos - 1])
              /\ FieldLines(PrevBlank(pos - 1) + 1, pos - 1) = {pos - 1})
          => /\ completed[Len(completed)] = NewEvent
             /\ rpc \in {"dispatch", "send"}
                    => /\ evt = <<NewEvent>>
                       /\ \A id \in Pending \cup target : eventType[id] = Empty
    /\ \A id \in SubIds : \A k \in 1..Len(received[id]) :
           received[id][k].Event = Empty => eventType[id] = Empty

\* C15 witness: the stream began with an unknown field line and a blank line;
\* the subscription with the empty filter has received the empty Event and
\* the registered subscription with another filter has received nothing.
C15_Witness ==
    /\ pos = 2
    /\ stream[1] = LUnknown
    /\ stream[2] = <<NL>>
    /\ rpc = "select"
    /\ completed = <<NewEvent>>
    /\ \E id \in subscriptions : eventType[id] = Empty /\ received[id] = <<NewEvent>>
    /\ \E id \in subscriptions :
           eventType[id] # Empty /\ feed[id] = "open" /\ received[id] = << >>

\* C16: dispatch is lock-step.  While a send to a subscriber is blocked no
\* line is read, the pending record does not change and only that subscriber
\* receives; and a line is read only when every subscription has received the
\* events of all earlier records it was to get.
C16_DispatchLockStep ==
    [][/\ rpc = "send"
              => /\ pos' = pos
                 /\ unfinishedEvent' = unfinishedEvent
                 /\ completed' = completed
                 /\ \A id \in SubIds : received'[id] # received[id] => target = {id}
       /\ (pos' # pos \/ completed' # completed)
              => \A id \in SubIds : received[id] = due[id]
       /\ \A id \in SubIds :
              received'[id] # received[id]
                  => /\ received'[id] = Append(received[id], completed[Len(completed)])
                     /\ received'[id] = due[id]]_vars

\* C16 witness: the send of the first record's event to one subscriber is
\* blocked while another matching subscriber waits for its turn and the
\* stream has a second record.
C16_Witness ==
    /\ rpc = "send"
    /\ Len(completed) = 1
    /\ pos < Len(stream)
    /\ \E id \in Pending \ target : feed[id] = "open" /\ received[id] = << >>

\* C17: after Close() has closed the stop channel or after a read error, the
\* read loop, unless it is in a read in flight or waits for a subscriber to
\* receive, can take its next step until it has left the loop and closed the
\* response body.
C17_ReadLoopExits ==
    (Running /\ (stopChan = "closed" \/ ~NoReadError) /\ rpc \notin {"done", "read", "send"})
        => ENABLED ReaderStep

\* C18: no call deadlocks on the registry mutex: a goroutine that is in
\* Close's range loop with a closeSubscription still to make is not itself
\* the holder of the mutex closeSubscription has to lock.
C18_NoMutexDeadlock ==
    \A p \in Threads :
        (Running /\ closePc[p] = "iter" /\ ctodo[p] # {}) => subscriptionsMtx # <<p>>

\* C19: the dispatch loop never sends on a delivery channel that a
\* Subscription.Close() or a Close() has closed.
C19_NoSendOnClosedFeed == panicked # "send on closed channel"

\* C20: once the feed is closed and every Subscribe and Close call has
\* returned, no subscription is registered with an open delivery channel.
C20_NoOrphanAfterClose ==
    (closed /\ \A c \in Clients : cpc[c] = "idle")
        => \A id \in subscriptions : feed[id] = "closed"

=============================================================================
